---- MODULE Spec2Model ----
(***************************************************************************)
(* A model of s4.py (the annotated S4): the bilinear discretizer, the      *)
(* recurrent and convolutional views of a discrete SSM, the generating-    *)
(* function kernel and its DPLR evaluation, the HiPPO-to-DPLR              *)
(* factorization and the S4 layer.                                         *)
(*                                                                         *)
(* Numbers.  The program computes in floating-point complex numbers.  The  *)
(* model computes exactly, in the field Q(sqrt 3, i): a number is          *)
(*     <<a, b, c, e, d>>  =  ((a + b*sqrt3) + i*(c + e*sqrt3)) / d         *)
(* with d > 0 and gcd(a, b, c, e, d) = 1, so equal numbers are equal       *)
(* tuples.  The field holds every L-th root of unity for L dividing 12     *)
(* (their real and imaginary parts are 0, 1/2, sqrt3/2, 1 up to sign), so  *)
(* np.exp(2j*pi*k/L), the inverse FFT, .conj() and .real are computed      *)
(* exactly, not approximated.  d = 0 stands for a non-finite value (inf or *)
(* nan), which is what a division by zero yields in the program.           *)
(***************************************************************************)
EXTENDS Integers, Sequences, FiniteSets, TLC

Abs(n) == IF n < 0 THEN -n ELSE n

RECURSIVE Gcd(_, _)
Gcd(a, b) == IF b = 0 THEN Abs(a) ELSE Gcd(b, a % Abs(b))

\* The two values with d = 0: a non-finite value of the program, and a finite
\* value of the program whose exact form does not fit the model's integers.
NonFinite == <<0, 0, 0, 0, 0>>

Unrepresentable == <<1, 0, 0, 0, 0>>

IsFinite(x) == x[5] # 0

\* What an operation on a value with d = 0 yields.
Absorb(x, y) ==
    IF x = Unrepresentable \/ y = Unrepresentable THEN Unrepresentable ELSE NonFinite

\* The product a * b, weighted and summed four at a time below, fits in 32 bits.
Fits(a, b) == a = 0 \/ b = 0 \/ Abs(a) <= 260000000 \div Abs(b)

\* Every product that x * y or x + y forms fits in 32 bits.
FitsAll(x, y) ==
    /\ \A i \in 1..4 : \A j \in 1..5 : Fits(x[i], y[j])
    /\ \A j \in 1..4 : Fits(x[5], y[j])
    /\ Abs(x[5]) <= 2000000000 \div Abs(y[5])

\* The canonical form of ((a + b*sqrt3) + i*(c + e*sqrt3)) / d, d # 0.
Num(a, b, c, e, d) ==
    LET g == Gcd(Gcd(Gcd(Gcd(a, b), c), e), d)
        s == IF d < 0 THEN -g ELSE g
    IN  <<a \div s, b \div s, c \div s, e \div s, d \div s>>

Z(n) == <<n, 0, 0, 0, 1>>

Q(n, d) == Num(n, 0, 0, 0, d)

\* The Gaussian rational (re + i*im) / d.
Gauss(re, im, d) == Num(re, 0, im, 0, d)

Zero == Z(0)

One == Z(1)

Add(x, y) ==
    IF x[5] = 0 \/ y[5] = 0 THEN Absorb(x, y)
    ELSE LET g == Gcd(x[5], y[5])
             xs == y[5] \div g
             ys == x[5] \div g
         IN  IF \/ \E i \in 1..4 : ~Fits(x[i], xs) \/ ~Fits(y[i], ys)
                \/ x[5] > 2000000000 \div xs
             THEN Unrepresentable
             ELSE Num(x[1] * xs + y[1] * ys, x[2] * xs + y[2] * ys,
                      x[3] * xs + y[3] * ys, x[4] * xs + y[4] * ys, x[5] * xs)

Neg(x) == IF x[5] = 0 THEN x ELSE <<-x[1], -x[2], -x[3], -x[4], x[5]>>

Sub(x, y) == Add(x, Neg(y))

Mul(x, y) ==
    IF x[5] = 0 \/ y[5] = 0 THEN Absorb(x, y)
    ELSE IF ~FitsAll(x, y) THEN Unrepresentable
    ELSE Num(x[1] * y[1] + 3 * x[2] * y[2] - x[3] * y[3] - 3 * x[4] * y[4],
             x[1] * y[2] + x[2] * y[1] - x[3] * y[4] - x[4] * y[3],
             x[1] * y[3] + 3 * x[2] * y[4] + x[3] * y[1] + 3 * x[4] * y[2],
             x[1] * y[4] + x[2] * y[3] + x[3] * y[2] + x[4] * y[1],
             x[5] * y[5])

\* z.conj()
Conj(x) == IF x[5] = 0 THEN x ELSE <<x[1], x[2], -x[3], -x[4], x[5]>>

\* z.real and z.imag, each as a number of the field.
RealPart(x) == IF x[5] = 0 THEN x ELSE Num(x[1], x[2], 0, 0, x[5])

ImagPart(x) == IF x[5] = 0 THEN x ELSE Num(x[3], x[4], 0, 0, x[5])

IsReal(x) == x[5] # 0 /\ x[3] = 0 /\ x[4] = 0

\* 1 / z.  With z = (R + i*I)/d, R and I in Z[sqrt3]:
\*   1/z = d * (R - i*I) / (R^2 + I^2),  R^2 + I^2 = n + m*sqrt3,
\*   1/(n + m*sqrt3) = (n - m*sqrt3) / (n^2 - 3*m^2).
\* A zero divisor yields a non-finite value.
Inv(x) ==
    IF x[5] = 0 THEN x
    ELSE IF x[1] = 0 /\ x[2] = 0 /\ x[3] = 0 /\ x[4] = 0 THEN NonFinite
    ELSE IF ~FitsAll(x, x) THEN Unrepresentable
    ELSE LET n == x[1] * x[1] + 3 * x[2] * x[2] + x[3] * x[3] + 3 * x[4] * x[4]
             m == 2 * x[1] * x[2] + 2 * x[3] * x[4]
             g == Gcd(n, m)
             n1 == n \div g
             m1 == m \div g
             cj == Num(x[5] * x[1], x[5] * x[2], -x[5] * x[3], -x[5] * x[4], 1)
         IN  IF m = 0
             THEN Num(x[5] * x[1], x[5] * x[2], -x[5] * x[3], -x[5] * x[4], n)
             ELSE IF n1 > 26000 THEN Unrepresentable
             ELSE Mul(Mul(cj, Q(1, g)), Num(n1, -m1, 0, 0, n1 * n1 - 3 * m1 * m1))

Div(x, y) == Mul(x, Inv(y))

\* The sign of a real number (a + b*sqrt3)/d of the field: -1, 0 or 1.
Sign(x) ==
    LET a == x[1]
        b == x[2]
    IN  IF a >= 0 /\ b >= 0 THEN (IF a = 0 /\ b = 0 THEN 0 ELSE 1)
        ELSE IF a <= 0 /\ b <= 0 THEN -1
        ELSE IF a > 0 THEN (IF a * a > 3 * b * b THEN 1 ELSE -1)
        ELSE (IF 3 * b * b > a * a THEN 1 ELSE -1)

RECURSIVE Sum(_, _, _)
\* sum of f[k] for k in lo..hi
Sum(f, lo, hi) == IF lo > hi THEN Zero ELSE Add(f[lo], Sum(f, lo + 1, hi))

RECURSIVE Pow(_, _)
Pow(x, n) == IF n = 0 THEN One ELSE Mul(x, Pow(x, n - 1))

(***************************************************************************)
(* Arrays.  A vector is a sequence of numbers; a matrix is a sequence of   *)
(* rows.  B of shape (M, 1) is a sequence of M one-element rows and C of   *)
(* shape (1, N) is one row of N elements.                                  *)
(***************************************************************************)
RECURSIVE Seqs(_, _)
\* the sequences of length n over S
Seqs(S, n) ==
    IF n = 0 THEN {<<>>}
    ELSE {Append(s, x) : s \in Seqs(S, n - 1), x \in S}

Rows(M) == Len(M)

Cols(M) == Len(M[1])

\* np.eye(n)
Eye(n) == [i \in 1..n |-> [j \in 1..n |-> IF i = j THEN One ELSE Zero]]

MatAdd(X, Y) == [i \in 1..Rows(X) |-> [j \in 1..Cols(X) |-> Add(X[i][j], Y[i][j])]]

MatSub(X, Y) == [i \in 1..Rows(X) |-> [j \in 1..Cols(X) |-> Sub(X[i][j], Y[i][j])]]

\* s * X, elementwise
MatScale(s, X) == [i \in 1..Rows(X) |-> [j \in 1..Cols(X) |-> Mul(s, X[i][j])]]

\* X @ Y for two matrices whose inner dimensions agree
MatMul(X, Y) ==
    [i \in 1..Rows(X) |-> [j \in 1..Cols(Y) |->
        Sum([k \in 1..Cols(X) |-> Mul(X[i][k], Y[k][j])], 1, Cols(X))]]

\* X @ v for a matrix and a vector
MatVec(X, v) ==
    [i \in 1..Rows(X) |-> Sum([k \in 1..Cols(X) |-> Mul(X[i][k], v[k])], 1, Cols(X))]

VecAdd(v, w) == [i \in 1..Len(v) |-> Add(v[i], w[i])]

\* X.conj().T
ConjT(X) == [i \in 1..Cols(X) |-> [j \in 1..Rows(X) |-> Conj(X[j][i])]]

RECURSIVE matrix_power(_, _)
\* jax.numpy.linalg.matrix_power(A, l), l >= 0
matrix_power(A, l) ==
    IF l = 0 THEN Eye(Rows(A)) ELSE MatMul(A, matrix_power(A, l - 1))

\* X without row i and column j
Minor(X, i, j) ==
    [r \in 1..(Rows(X) - 1) |-> [c \in 1..(Cols(X) - 1) |->
        X[IF r < i THEN r ELSE r + 1][IF c < j THEN c ELSE c + 1]]]

RECURSIVE Det(_)
Det(X) ==
    IF Rows(X) = 1 THEN X[1][1]
    ELSE Sum([j \in 1..Cols(X) |->
                Mul(IF j % 2 = 1 THEN X[1][j] ELSE Neg(X[1][j]), Det(Minor(X, 1, j)))],
             1, Cols(X))

\* jax.numpy.linalg.inv(X): the inverse; of a singular X, no exception but an
\* array of non-finite entries (the LU solve divides by the zero pivot).
inv(X) ==
    LET d == Det(X)
        n == Rows(X)
    IN  IF d = Zero \/ ~IsFinite(d)
        THEN [i \in 1..n |-> [j \in 1..n |-> NonFinite]]
        ELSE [i \in 1..n |-> [j \in 1..n |->
                 Div(IF n = 1 THEN One
                     ELSE IF (i + j) % 2 = 0 THEN Det(Minor(X, j, i))
                     ELSE Neg(Det(Minor(X, j, i))), d)]]

MatFinite(X) == \A i \in 1..Rows(X) : \A j \in 1..Cols(X) : IsFinite(X[i][j])

(***************************************************************************)
(* Part 1 of s4.py: the discretizer, the recurrence and the convolution.   *)
(***************************************************************************)
VARIABLES
    pc,     \* the position of the running computation
    arg,    \* the arguments it was called with
    loc,    \* its local variables, by their names in s4.py
    ret     \* what it returned, or "none"

vars == <<pc, arg, loc, ret>>

\* discretize, line 94: BL = inv(I - (step / 2.0) * A)
discretize_BL(A, step) ==
    inv(MatSub(Eye(Rows(A)), MatScale(Div(step, Z(2)), A)))

\* discretize, line 95: Abar = BL @ (I + (step / 2.0) * A)
discretize_Abar(BL, A, step) ==
    MatMul(BL, MatAdd(Eye(Rows(A)), MatScale(Div(step, Z(2)), A)))

\* discretize, line 96: Bbar = (BL * step) @ B, for B of as many rows as BL has
\* columns
discretize_Bbar(BL, B, step) == MatMul(MatScale(step, BL), B)

\* discretize(A, B, C, step), lines 92-97, for operands whose shapes agree
discretize(A, B, C, step) ==
    LET BL == discretize_BL(A, step)
    IN  <<discretize_Abar(BL, A, step), discretize_Bbar(BL, B, step), C>>

\* stepSSM with the output read before the state is advanced.
stepSSM_OutputFromOldState(A, B, C, x_t, u_t) ==
    <<VecAdd(MatVec(A, x_t), MatVec(B, <<u_t>>)), MatVec(C, x_t)>>

\* stepSSM(A, B, C)(x_t, u_t), lines 114-117: the new state and the output read
\* from the new state.
stepSSM(A, B, C, x_t, u_t) ==
    LET x_new == VecAdd(MatVec(A, x_t), MatVec(B, <<u_t>>))
    IN  <<x_new, MatVec(C, x_new)>>

\* K_conv(A, B, C, L): the scalars C @ A^l @ B for l = 0..L-1.
K_conv(A, B, C, L) ==
    [l \in 1..L |-> MatMul(MatMul(C, matrix_power(A, l - 1)), B)[1][1]]

\* jax.scipy.signal.convolve(u, K, mode="full"): every overlap of u and K.
convolve(u, K) ==
    [n \in 1..(Len(u) + Len(K) - 1) |->
        LET lo == IF n - Len(K) + 1 > 1 THEN n - Len(K) + 1 ELSE 1
            hi == IF n < Len(u) THEN n ELSE Len(u)
        IN  Sum([m \in lo..hi |-> Mul(u[m], K[n - m + 1])], lo, hi)]

\* A circular convolution of period len(u): what an FFT product without zero
\* padding computes.
CircularConvolution(u, K) ==
    [l \in 1..Len(u) |->
        Sum([t \in 1..Len(K) |-> Mul(K[t], u[((l - t) % Len(u)) + 1])], 1, Len(K))]

\* nonCircularConvolution(u, K): the first len(u) terms of the full convolution.
nonCircularConvolution(u, K) == SubSeq(convolve(u, K), 1, Len(u))

----------------------------------------------------------------------------
(* example_both(ssm, u), with the call of discretize(A, B, C, step) at line  *)
(* 257 taken one source line at a time.                                      *)

MaxLen == 3

ExampleA ==
    { <<<<Z(-1)>>>>, <<<<Z(1)>>>>, <<<<Z(2)>>>>, <<<<Z(4)>>>>,
      <<<<Z(0), Z(1)>>, <<Z(-1), Z(-1)>>>>,        \* example_mass(1, 1, 1)
      <<<<Z(2), Z(0)>>, <<Z(1), Z(-1)>>>> }

ExampleB ==
    { <<<<Z(1)>>>>, <<<<Z(0)>>, <<Z(1)>>>>, <<<<Z(1)>>, <<Z(-1)>>>> }

ExampleC ==
    { <<<<Z(1)>>>>, <<<<Z(0), Z(1)>>>>, <<<<Z(1), Z(2)>>>> }

ExampleU == UNION {Seqs({Z(-1), Z(0), Z(1)}, n) : n \in 1..MaxLen}

NoLocals ==
    [L |-> 0, step |-> Zero, I |-> <<>>, BL |-> <<>>, Abar |-> <<>>, Bbar |-> <<>>,
     ssm |-> <<>>, x_t |-> <<>>, rec |-> <<>>, conv |-> <<>>]

InitBoth ==
    /\ pc = "example_both"
    /\ \E A \in ExampleA, B \in ExampleB, C \in ExampleC, u \in ExampleU :
          /\ Cols(C) = Rows(A)
          /\ arg = [A |-> A, B |-> B, C |-> C, u |-> u]
    /\ loc = NoLocals
    /\ ret = "none"

\* lines 254-255, then discretize lines 93-94: I, and BL = inv(I - (step/2) A).
DiscretizeInv ==
    /\ pc = "example_both"
    /\ LET L == Len(arg.u)
           step == Q(1, L)
           I == Eye(Rows(arg.A))
       IN  loc' = [loc EXCEPT !.L = L, !.step = step, !.I = I,
                      !.BL = discretize_BL(arg.A, step)]
    /\ pc' = "discretize_95"
    /\ UNCHANGED <<arg, ret>>

\* line 95: Abar = BL @ (I + (step/2) A)
DiscretizeAbar ==
    /\ pc = "discretize_95"
    /\ loc' = [loc EXCEPT !.Abar = discretize_Abar(loc.BL, arg.A, loc.step)]
    /\ pc' = "discretize_96"
    /\ UNCHANGED <<arg, ret>>

\* line 96 with the elementwise product (BL * step) * B in place of the matrix
\* product: a one-row B broadcasts against BL and nothing is raised.
DiscretizeBbar_Broadcast ==
    /\ pc = "discretize_96"
    /\ IF Rows(arg.B) # Rows(loc.BL) /\ Rows(arg.B) # 1
       THEN /\ pc' = "raised"
            /\ ret' = "dimension mismatch"
            /\ UNCHANGED loc
       ELSE /\ loc' = [loc EXCEPT !.Bbar =
                          [i \in 1..Rows(loc.BL) |-> [j \in 1..Cols(loc.BL) |->
                              Mul(Mul(loc.step, loc.BL[i][j]),
                                  arg.B[IF Rows(arg.B) = 1 THEN 1 ELSE i][1])]]]
            /\ pc' = "discretize_97"
            /\ UNCHANGED ret
    /\ UNCHANGED arg

\* line 96: Bbar = (BL * step) @ B.  The matrix product raises when the inner
\* dimensions differ; nothing before this line looks at the shape of B.
DiscretizeBbar ==
    /\ pc = "discretize_96"
    /\ IF Cols(loc.BL) # Rows(arg.B)
       THEN /\ pc' = "raised"
            /\ ret' = "dimension mismatch"
            /\ UNCHANGED loc
       ELSE /\ loc' = [loc EXCEPT !.Bbar = discretize_Bbar(loc.BL, arg.B, loc.step)]
            /\ pc' = "discretize_97"
            /\ UNCHANGED ret
    /\ UNCHANGED arg

\* line 97: return Abar, Bbar, C; back in example_both, line 257 binds ssm and
\* line 260 starts the scan from np.zeros((N,)).
DiscretizeReturn ==
    /\ pc = "discretize_97"
    /\ loc' = [loc EXCEPT !.ssm = <<loc.Abar, loc.Bbar, arg.C>>,
                          !.x_t = [i \in 1..Rows(loc.Abar) |-> Zero]]
    /\ pc' = "scan"
    /\ UNCHANGED <<arg, ret>>

\* scanSSM: one iteration of jax.lax.scan(step_fn, init, u), carrying x_t and
\* stacking y_t.
ScanStep ==
    /\ pc = "scan"
    /\ Len(loc.rec) < loc.L
    /\ LET s == stepSSM(loc.ssm[1], loc.ssm[2], loc.ssm[3], loc.x_t,
                        arg.u[Len(loc.rec) + 1])
       IN  loc' = [loc EXCEPT !.x_t = s[1], !.rec = Append(loc.rec, s[2])]
    /\ UNCHANGED <<pc, arg, ret>>

\* line 263: conv = nonCircularConvolution(u, K_conv(*ssm, L)); line 264 returns.
Convolution ==
    /\ pc = "scan"
    /\ Len(loc.rec) = loc.L
    /\ LET conv == nonCircularConvolution(arg.u,
                       K_conv(loc.ssm[1], loc.ssm[2], loc.ssm[3], loc.L))
       IN  /\ loc' = [loc EXCEPT !.conv = conv]
           /\ ret' = <<loc.rec, conv>>
    /\ pc' = "done"
    /\ UNCHANGED arg

NextBoth ==
    \/ DiscretizeInv
    \/ DiscretizeAbar
    \/ DiscretizeBbar
    \/ DiscretizeReturn
    \/ ScanStep
    \/ Convolution

SpecBoth == InitBoth /\ [][NextBoth]_vars

----------------------------------------------------------------------------
(* Claims about example_both and discretize, checked under SpecBoth.        *)

\* (I - (step/2) A) is singular, for the A and the step = 1/len(u) of the call
SingularOperator ==
    Det(MatSub(Eye(Rows(arg.A)),
               MatScale(Div(Q(1, Len(arg.u)), Z(2)), arg.A))) = Zero

\* B has M rows, A is N x N, and M # N
ShapeMismatch == Rows(arg.B) # Rows(arg.A)

\* C2: for a discrete SSM that discretize produced from an invertible
\* (I - (step/2) A), the outputs of the step-by-step recurrence and of the
\* non-circular convolution with K_conv are equal at every l in 0..L-1.
C2_RecurrenceEqualsConvolution ==
    (pc = "done" /\ ~SingularOperator) =>
        /\ Len(loc.rec) = loc.L
        /\ Len(loc.conv) = loc.L
        /\ \A l \in 1..loc.L :
              /\ IsFinite(loc.conv[l])
              /\ loc.rec[l] = <<loc.conv[l]>>

\* C2 witness: the mass-spring system run over three inputs, with an output
\* at the last step that the earlier inputs contribute to.
C2_Witness ==
    /\ pc = "done"
    /\ arg.A = <<<<Z(0), Z(1)>>, <<Z(-1), Z(-1)>>>>
    /\ arg.u = <<Z(1), Z(1), Z(-1)>>
    /\ loc.conv[3] # Zero
    /\ loc.conv[3] # loc.conv[2]
    /\ ~SingularOperator

\* C7 (the claim as stated): when (I - (step/2) A) is singular, discretize
\* returns no triple: it never gets to bind ssm, let alone with non-finite
\* entries.
C7_SingularFailsExplicitly ==
    SingularOperator => (loc.ssm = <<>> /\ pc \notin {"scan", "done"})

Layer_call(u, K, D) ==
    LET c == nonCircularConvolution(u, K)
    IN  [l \in 1..Len(c) |-> Add(c[l], Mul(D, u[l]))]

MaxSeqLen == 3

SeqValues == {Z(-1), Z(0), Z(2)}

SeqInputs == UNION {Seqs(SeqValues, n) : n \in 1..MaxSeqLen}

InitCall ==
    /\ pc = "__call__"
    /\ \E u \in SeqInputs, K \in SeqInputs, D \in {Z(0), Z(1), Q(-1, 2)} :
          arg = [u |-> u, K |-> K, D |-> D]
    /\ loc = NoLocals
    /\ ret = "none"

Call ==
    /\ pc = "__call__"
    /\ ret' = Layer_call(arg.u, arg.K, arg.D)
    /\ pc' = "returned"
    /\ UNCHANGED <<arg, loc>>

NextCall == Call

SpecCall == InitCall /\ [][NextCall]_vars

\* K[t], 0-based, zero beyond the length of K
KernelAt(K, t) == IF t < Len(K) THEN K[t + 1] ELSE Zero

\* C3: the transformer returns a sequence of the length of u, with
\* y[l] = sum over t = 0..l of K[t] * u[l - t], plus D * u[l], for every l in
\* 0..L-1; no input later than l contributes to y[l].
C3_CausalConvolutionPlusSkip ==
    pc = "returned" =>
        /\ Len(ret) = Len(arg.u)
        /\ \A l \in 0..(Len(arg.u) - 1) :
              ret[l + 1] =
                  Add(Sum([t \in 0..l |-> Mul(KernelAt(arg.K, t), arg.u[l - t + 1])], 0, l),
                      Mul(arg.D, arg.u[l + 1]))

\* C3 witness: a kernel as long as a three-sample input whose first output is
\* K[0]*u[0] + D*u[0] alone although later inputs are not zero.
C3_Witness ==
    /\ pc = "returned"
    /\ Len(arg.u) = 3
    /\ Len(arg.K) = 3
    /\ arg.u[2] # Zero /\ arg.u[3] # Zero /\ arg.K[2] # Zero /\ arg.K[3] # Zero
    /\ arg.D # Zero
    /\ ret[1] = Add(Mul(arg.K[1], arg.u[1]), Mul(arg.D, arg.u[1]))
    /\ ret[1] # Zero

(***************************************************************************)
(* Part 2, step 1: generating functions.  K_gen_simple and convFromGen.    *)
(***************************************************************************)

\* exp(i * m * pi/6): twice the cosine of m * 30 degrees is TwoCos30[m % 12 + 1],
\* as <<a, b>> for a + b*sqrt3, and the sine is the cosine a quarter turn back.
TwoCos30 ==
    << <<2, 0>>, <<0, 1>>, <<1, 0>>, <<0, 0>>, <<-1, 0>>, <<0, -1>>,
       <<-2, 0>>, <<0, -1>>, <<-1, 0>>, <<0, 0>>, <<1, 0>>, <<0, 1>> >>

Cis30(m) ==
    LET c == TwoCos30[(m % 12) + 1]
        s == TwoCos30[((m + 9) % 12) + 1]
    IN  Num(c[1], c[2], s[1], s[2], 2)

\* np.exp((2j * np.pi / L) * k), for L a divisor of 12
RootOfUnity(L, k) == Cis30((12 \div L) * k)

\* line 371, the function K_gen_simple returns: z |-> np.sum(K * z ** np.arange(L))
K_gen_simple(K, L, z) == Sum([l \in 0..(L - 1) |-> Mul(K[l + 1], Pow(z, l))], 0, L - 1)

\* np.fft.ifft(a, L): out[n] = (1/L) * sum over k of a[k] * exp(2 pi i k n / L)
ifft(a, L) ==
    [n \in 1..L |->
        Mul(Q(1, L),
            Sum([k \in 1..L |-> Mul(a[k], RootOfUnity(L, (k - 1) * (n - 1)))], 1, L))]

\* The identity order: the inverse transform read without the reversal.
order_Identity(i, L) == i

\* line 392: order[i] = i if i == 0 else L - i (0-based)
order(i, L) == IF i = 0 THEN i ELSE L - i

\* cauchy_dot(v, omega, lambd), line 459: (v / (omega - lambd)).sum()
cauchy_dot(v, omega, lambd) ==
    Sum([i \in 1..Len(v) |-> Div(v[i], Sub(omega, lambd[i]))], 1, Len(v))

\* elementwise product of two vectors
VecMul(v, w) == [i \in 1..Len(v) |-> Mul(v[i], w[i])]

VecConj(v) == [i \in 1..Len(v) |-> Conj(v[i])]

\* B.ravel() for B of shape (N, 1)
Ravel(B) == [i \in 1..Rows(B) |-> B[i][1]]

\* lines 488-500, the function K_gen_DPLR(Lambda, p, q, B, Ct, step) returns,
\* applied to o.
K_gen_DPLR(Lambda, p, q, B, Ct, step, o) ==
    LET aterm == <<VecConj(Ct), VecConj(q)>>
        bterm == <<Ravel(B), p>>
        g == Mul(Div(Z(2), step), Div(Sub(One, o), Add(One, o)))
        c == Div(Z(2), Add(One, o))
        k00 == cauchy_dot(VecMul(aterm[1], bterm[1]), g, Lambda)
        k01 == cauchy_dot(VecMul(aterm[1], bterm[2]), g, Lambda)
        k10 == cauchy_dot(VecMul(aterm[2], bterm[1]), g, Lambda)
        k11 == cauchy_dot(VecMul(aterm[2], bterm[2]), g, Lambda)
    IN  Mul(c, Sub(k00, Mul(Mul(k01, Div(One, Add(One, k11))), k10)))

\* gen(z), for the two generating functions convFromGen is called with
Gen(gen, z) ==
    IF gen.kind = "K_gen_simple" THEN K_gen_simple(gen.K, gen.L, z)
    ELSE K_gen_DPLR(gen.Lambda, gen.p, gen.q, gen.B, gen.Ct, gen.step, z)

\* convFromGen, line 387
convFromGen_r(L) == [k \in 1..L |-> RootOfUnity(L, k - 1)]

\* convFromGen, line 388
convFromGen_atRoots(gen, r) == [k \in 1..Len(r) |-> Gen(gen, r[k])]

\* convFromGen, lines 392-393: out[order].real
convFromGen_ordered(out, L) == [i \in 1..L |-> RealPart(out[order(i - 1, L) + 1])]

\* convFromGen(gen, L), lines 385-393
convFromGen(gen, L) ==
    convFromGen_ordered(ifft(convFromGen_atRoots(gen, convFromGen_r(L)), L), L)

MaxL == 5

\* The lengths whose roots of unity the field holds.
Lengths == {L \in 1..MaxL : 12 % L = 0}

KernelValues == {Z(-1), Z(0), Z(2), Gauss(0, 1, 1)}

NoGenLocals == [gen |-> <<>>, r |-> <<>>, atRoots |-> <<>>, out |-> <<>>]

\* convFromGen(K_gen_simple(..., L), L), as at lines 399, 425 and 507, for the
\* kernels K that K_conv can return.
InitGen ==
    /\ pc = "convFromGen"
    /\ \E L \in Lengths : \E K \in Seqs(KernelValues, L) :
          /\ arg = [K |-> K, L |-> L]
          /\ loc = [NoGenLocals EXCEPT !.gen = [kind |-> "K_gen_simple", K |-> K, L |-> L]]
    /\ ret = "none"

\* line 387
GenRoots ==
    /\ pc = "convFromGen"
    /\ loc' = [loc EXCEPT !.r = convFromGen_r(arg.L)]
    /\ pc' = "convFromGen_388"
    /\ UNCHANGED <<arg, ret>>

\* line 388
GenSample ==
    /\ pc = "convFromGen_388"
    /\ loc' = [loc EXCEPT !.atRoots = convFromGen_atRoots(loc.gen, loc.r)]
    /\ pc' = "convFromGen_390"
    /\ UNCHANGED <<arg, ret>>

\* line 390
GenInverseFFT ==
    /\ pc = "convFromGen_390"
    /\ loc' = [loc EXCEPT !.out = ifft(loc.atRoots, arg.L)]
    /\ pc' = "convFromGen_392"
    /\ UNCHANGED <<arg, ret>>

\* lines 392-393: return out[order].real; nothing looks at the imaginary part.
GenReturn ==
    /\ pc = "convFromGen_392"
    /\ ret' = convFromGen_ordered(loc.out, arg.L)
    /\ pc' = "returned"
    /\ UNCHANGED <<arg, loc>>

NextGen ==
    \/ GenRoots
    \/ GenSample
    \/ GenInverseFFT
    \/ GenReturn

SpecGen == InitGen /\ [][NextGen]_vars

RealSeq(K) == \A l \in 1..Len(K) : IsReal(K[l])

\* C4: for a real K of length L, sampling sum K[l] z^l at the L roots of unity,
\* the size-L inverse DFT and the reindexing return K[0..L-1] in the original
\* order, and the imaginary parts that .real drops are zero.
C4_RootsOfUnityRoundTrip ==
    (pc = "returned" /\ RealSeq(arg.K)) =>
        /\ ret = arg.K
        /\ \A i \in 1..arg.L : ImagPart(loc.out[i]) = Zero

\* C4 witness: a real kernel of length 4 that differs from its own reversal
\* and from its circular reversal has been returned.
C4_Witness ==
    /\ pc = "returned"
    /\ arg.L = 4
    /\ arg.K = <<Z(2), Z(-1), Z(0), Z(2)>>
    /\ ret = arg.K

(***************************************************************************)
(* Part 2, steps 2 and 3: the DPLR kernel as S4Layer.setup computes it     *)
(* (lines 566-571), next to the kernel K_conv computes from the same       *)
(* operators (the comparison of lines 398-402, made for K_gen_DPLR).       *)
(***************************************************************************)

\* line 597: A = np.diag(Lambda) - p[:, np.newaxis] @ q[:, np.newaxis].conj().T
DPLR(Lambda, p, q) ==
    [i \in 1..Len(Lambda) |-> [j \in 1..Len(Lambda) |->
        Sub(IF i = j THEN Lambda[i] ELSE Zero, Mul(p[i], Conj(q[j])))]]

\* line 569: Ct = (I - matrix_power(Abar, l_max)).conj().T @ Cbar.ravel()
setup_Ct(Abar, Cbar, l_max) ==
    MatVec(ConjT(MatSub(Eye(Rows(Abar)), matrix_power(Abar, l_max))), Cbar[1])

\* lines 568-571: the kernel self.K.  Each assignment of the code is a bound
\* variable ranging over the one value of its right-hand side.
setup_K(A, Lambda, p, q, B, C, l_max) ==
    LET step == Q(1, l_max)
    IN  CHOOSE K \in UNION {
            { convFromGen([kind |-> "K_gen_DPLR", Lambda |-> Lambda, p |-> p, q |-> q,
                           B |-> B, Ct |-> Ct, step |-> step], l_max)
                : Ct \in {setup_Ct(ssm[1], ssm[3], l_max)} }
            : ssm \in {discretize(A, B, C, step)} } : TRUE

\* The odd lengths: at z = -1, a root of unity of every even length, gen divides
\* by 1 + z.  The program's root there is exp(i*pi) rounded, which is not -1,
\* and the quotient it forms has no exact counterpart.
OddLengths == {L \in Lengths : L % 2 = 1}

\* (Lambda, p, q) of the DPLR operators tried: of one state and of two, real
\* and complex, Re(Lambda) < 0; the first is what S4LayerInit(1) yields.
DPLRExamples ==
    { <<<<Q(-1, 2)>>, <<Num(0, 1, 0, 0, 2)>>, <<Num(0, 1, 0, 0, 1)>>>>,
      <<<<Z(-1)>>, <<Z(1)>>, <<Z(1)>>>>,
      <<<<Z(-2)>>, <<Q(1, 2)>>, <<Z(-1)>>>>,
      <<<<Z(-1)>>, <<Zero>>, <<Z(1)>>>>,
      <<<<Gauss(-1, 1, 1)>>, <<Zero>>, <<Zero>>>>,
      <<<<Gauss(-1, 1, 1)>>, <<Z(1)>>, <<Z(1)>>>>,
      <<<<Gauss(-1, -2, 1)>>, <<Gauss(0, 1, 1)>>, <<Z(1)>>>>,
      <<<<Gauss(-2, 1, 1)>>, <<Gauss(1, 1, 1)>>, <<Gauss(1, -1, 2)>>>>,
      <<<<Z(-1), Z(-2)>>, <<Z(1), Z(1)>>, <<Z(1), Z(-1)>>>>,
      <<<<Z(-1), Z(-3)>>, <<Z(1), Zero>>, <<Z(1), Z(1)>>>>,
      <<<<Gauss(-1, 1, 1), Gauss(-1, -1, 1)>>, <<Z(1), Z(1)>>, <<Z(1), Z(1)>>>>,
      <<<<Gauss(-1, 1, 1), Gauss(-1, -1, 1)>>, <<Z(1), Gauss(0, 1, 1)>>, <<Z(1), Z(1)>>>> }

\* The learned B (N, 1) and C (1, N) tried: real, as lecun_normal draws them.
ParamValues == {Z(-1), Z(2)}

\* The lengths tried for an operator of N states: the numbers of a longer
\* kernel of two states pass the model's integers.
LengthsOf(N) == IF N = 1 THEN OddLengths ELSE {1}

VecFinite(v) == \A i \in 1..Len(v) : IsFinite(v[i])

\* The exact form of every number the kernel computation meets, the oracle's
\* included, fits the model's integers, and none is a division by zero.
Representable(A, Lambda, p, q, B, C, l_max) ==
    /\ VecFinite(setup_K(A, Lambda, p, q, B, C, l_max))
    /\ \E ssm \in {discretize(A, B, C, Q(1, l_max))} :
          VecFinite(K_conv(ssm[1], ssm[2], ssm[3], l_max))

NoSetupLocals ==
    [step |-> Zero, Abar |-> <<>>, Cbar |-> <<>>, Ct |-> <<>>, gen |-> <<>>,
     r |-> <<>>, atRoots |-> <<>>, out |-> <<>>, oracle |-> <<>>]

InitKernel ==
    /\ pc = "setup"
    /\ \E d \in DPLRExamples :
        \E L \in LengthsOf(Len(d[1])) :
          \E B \in Seqs(Seqs(ParamValues, 1), Len(d[1])) :
             \E C \in Seqs(Seqs(ParamValues, Len(d[1])), 1) :
                /\ Representable(DPLR(d[1], d[2], d[3]), d[1], d[2], d[3], B, C, L)
                /\ arg = [A |-> DPLR(d[1], d[2], d[3]), Lambda |-> d[1], p |-> d[2],
                          q |-> d[3], B |-> B, C |-> C, L |-> L]
    /\ loc = NoSetupLocals
    /\ ret = "none"

\* lines 561 and 567-568
SetupDiscretize ==
    /\ pc = "setup"
    /\ LET step == Q(1, arg.L)
           ssm == discretize(arg.A, arg.B, arg.C, step)
       IN  loc' = [loc EXCEPT !.step = step, !.Abar = ssm[1], !.Cbar = ssm[3]]
    /\ pc' = "setup_569"
    /\ UNCHANGED <<arg, ret>>

\* lines 569-570, and the call of convFromGen of line 571
SetupCt ==
    /\ pc = "setup_569"
    /\ LET Ct == setup_Ct(loc.Abar, loc.Cbar, arg.L)
       IN  loc' = [loc EXCEPT !.Ct = Ct,
                      !.gen = [kind |-> "K_gen_DPLR", Lambda |-> arg.Lambda, p |-> arg.p,
                               q |-> arg.q, B |-> arg.B, Ct |-> Ct, step |-> loc.step]]
    /\ pc' = "convFromGen"
    /\ UNCHANGED <<arg, ret>>

\* The oracle: K_conv(Abar, Bbar, Cbar, L) of the same operators.
Oracle ==
    /\ pc = "returned"
    /\ LET ssm == discretize(arg.A, arg.B, arg.C, loc.step)
       IN  loc' = [loc EXCEPT !.oracle = K_conv(ssm[1], ssm[2], ssm[3], arg.L)]
    /\ pc' = "compared"
    /\ UNCHANGED <<arg, ret>>

NextKernel ==
    \/ SetupDiscretize
    \/ SetupCt
    \/ GenRoots
    \/ GenSample
    \/ GenInverseFFT
    \/ GenReturn
    \/ Oracle

SpecKernel == InitKernel /\ [][NextKernel]_vars

\* |x| and the order of the real numbers of the field.
AbsReal(x) == IF Sign(x) < 0 THEN Neg(x) ELSE x

Leq(x, y) == Sign(Sub(y, x)) >= 0

\* |Re z| + |Im z| >= |z| >= max(|Re z|, |Im z|)
Norm1(z) == Add(AbsReal(RealPart(z)), AbsReal(ImagPart(z)))

NormMax(z) ==
    IF Leq(AbsReal(RealPart(z)), AbsReal(ImagPart(z)))
    THEN AbsReal(ImagPart(z)) ELSE AbsReal(RealPart(z))

\* lines 401, 426, 508: np.isclose(a, b, rtol=1e-2, atol=1e-4), that is
\* |a - b| <= atol + rtol * |b|.  The modulus of a complex number is not a
\* number of the field: this is  max(|Re|, |Im|)(a - b) <= atol + rtol * (|Re b| + |Im b|),
\* which np.isclose(a, b) implies, with both sides multiplied by 1/atol.
isclose(a, b) ==
    LET lhs == Mul(Z(10000), NormMax(Sub(a, b)))
        rhs == Add(One, Mul(Z(100), Norm1(b)))
    IN  (IsFinite(lhs) /\ IsFinite(rhs)) => Leq(lhs, rhs)

\* C1 (the claim as stated): the kernel S4Layer.setup computes with
\* convFromGen(K_gen_DPLR(...)) equals K_conv of the discretised operators,
\* entry by entry, within rtol 1e-2 and atol 1e-4.
C1_FastKernelMatchesOracle ==
    pc = "compared" => \A l \in 1..arg.L : isclose(ret[l], loc.oracle[l])

\* What the fast path does return: the real part of the oracle's kernel.
FastKernelIsRealPartOfOracle ==
    pc = "compared" => \A l \in 1..arg.L : ret[l] = RealPart(loc.oracle[l])

\* C6 (the claim as stated): convFromGen returns a kernel only when the
\* imaginary part it discards is within tolerance of zero, that is when the
\* real part it keeps is close to the inverse transform it was taken from.
C6_ImaginaryPartSignalled ==
    pc \in {"returned", "compared"} =>
        \A i \in 1..arg.L : isclose(RealPart(loc.out[i]), loc.out[i])

(***************************************************************************)
(* Part 2, step 3: make_DPLR_HiPPO.  The entries of p, pq, hippo and S are *)
(* rational multiples of square roots of integers,                         *)
(*     <<n, d, m>>  =  (n / d) * sqrt(m),  d > 0, gcd(n, d) = 1, m         *)
(* squarefree, 0 = <<0, 1, 1>>.  A sum of two of them with different m is  *)
(* not of this form: <<0, 0, 0>>.                                          *)
(***************************************************************************)
NotSurd == <<0, 0, 0>>

Surd(n, d, m) ==
    IF d = 0 THEN NotSurd
    ELSE IF n = 0 THEN <<0, 1, 1>>
    ELSE LET g == Gcd(Abs(n), Abs(d))
             s == IF d < 0 THEN -1 ELSE 1
         IN  <<s * (n \div g), s * (d \div g), m>>

\* The largest s with s * s dividing k.
SquarePart(k) == CHOOSE s \in 1..k : k % (s * s) = 0 /\ \A t \in (s + 1)..k : k % (t * t) # 0

\* np.sqrt(k) of an integer k >= 1
SurdSqrt(k) == Surd(SquarePart(k), 1, k \div (SquarePart(k) * SquarePart(k)))

SurdMul(x, y) ==
    IF x[2] = 0 \/ y[2] = 0 THEN NotSurd
    ELSE LET g == Gcd(x[3], y[3])
         IN  Surd(x[1] * y[1] * g, x[2] * y[2], (x[3] \div g) * (y[3] \div g))

SurdNeg(x) == <<-x[1], x[2], x[3]>>

SurdAdd(x, y) ==
    IF x[2] = 0 \/ y[2] = 0 THEN NotSurd
    ELSE IF x[1] = 0 THEN y
    ELSE IF y[1] = 0 THEN x
    ELSE IF x[3] # y[3] THEN NotSurd
    ELSE Surd(x[1] * y[2] + y[1] * x[2], x[2] * y[2], x[3])

RECURSIVE SurdSum(_, _, _)
SurdSum(f, lo, hi) == IF lo > hi THEN Surd(0, 1, 1) ELSE SurdAdd(f[lo], SurdSum(f, lo + 1, hi))

RECURSIVE SurdDet(_)
SurdDet(X) ==
    IF Rows(X) = 0 THEN Surd(1, 1, 1)
    ELSE IF Rows(X) = 1 THEN X[1][1]
    ELSE SurdSum([j \in 1..Cols(X) |->
                    SurdMul(IF j % 2 = 1 THEN X[1][j] ELSE SurdNeg(X[1][j]),
                            SurdDet(Minor(X, 1, j)))],
                 1, Cols(X))

\* A rational surd as a number of the field.
Rational(x) == IF x[2] = 0 \/ x[3] # 1 THEN Unrepresentable ELSE Q(x[1], x[2])

\* line 529: p = np.sqrt(2 * np.arange(1, N + 1) + 1.0)
hippo_p(N) == [n \in 1..N |-> SurdSqrt(2 * n + 1)]

\* line 531: pq = p[:, np.newaxis] * q[np.newaxis, :]
hippo_pq(p, q) == [i \in 1..Len(p) |-> [j \in 1..Len(q) |-> SurdMul(p[i], q[j])]]

\* line 532: hippo = -np.tril(pq, k=-1) - np.diag(np.arange(1, N + 1) + 1)
hippo_matrix(pq) ==
    [i \in 1..Len(pq) |-> [j \in 1..Len(pq) |->
        IF i > j THEN SurdNeg(pq[i][j])
        ELSE IF i = j THEN Surd(-(i + 1), 1, 1)
        ELSE Surd(0, 1, 1)]]

\* S with the rank-one term added whole: hippo + (pq + 0.5 * np.eye(N)).
hippo_S_WholeRankOne(hippo, pq) ==
    [i \in 1..Len(pq) |-> [j \in 1..Len(pq) |->
        SurdAdd(hippo[i][j],
                SurdAdd(pq[i][j], IF i = j THEN Surd(1, 2, 1) ELSE Surd(0, 1, 1)))]]

\* line 534: S = hippo + (0.5 * pq + 0.5 * np.eye(N))
hippo_S(hippo, pq) ==
    [i \in 1..Len(pq) |-> [j \in 1..Len(pq) |->
        SurdAdd(hippo[i][j],
                SurdAdd(SurdMul(Surd(1, 2, 1), pq[i][j]),
                        IF i = j THEN Surd(1, 2, 1) ELSE Surd(0, 1, 1)))]]

(***************************************************************************)
(* line 536: diag, v = eig_cpu(S).  The eigenvalues of S are the roots of  *)
(* det(y I - S) = sum_k (-1)^k E_k(S) y^(N-k), E_k the sum of the k x k    *)
(* principal minors of S.  They are not numbers of the field for N >= 2;   *)
(* an eigenvalue array is held as the monic polynomial whose roots it      *)
(* lists, <<c_0 = 1, c_1, ..., c_N>>, coefficient of y^(N-k) at k + 1.     *)
(***************************************************************************)
\* The k-th smallest element of a set of integers.
Ordered(J) ==
    [k \in 1..Cardinality(J) |-> CHOOSE x \in J : Cardinality({y \in J : y < x}) = k - 1]

\* X[J, J]
Principal(X, J) ==
    [r \in 1..Cardinality(J) |-> [c \in 1..Cardinality(J) |->
        X[Ordered(J)[r]][Ordered(J)[c]]]]

RECURSIVE SumOver(_, _)
\* sum of f[J] for J in a set T
SumOver(f, T) ==
    IF T = {} THEN Zero
    ELSE LET J == CHOOSE J \in T : TRUE
         IN  Add(f[J], SumOver(f, T \ {J}))

\* E_k(X): the sum of the k x k principal minors of X
PrincipalMinors(X, k) ==
    LET T == {J \in SUBSET (1..Rows(X)) : Cardinality(J) = k}
    IN  SumOver([J \in T |-> Rational(SurdDet(Principal(X, J)))], T)

\* the eigenvalues of X
eig_values(X) ==
    [k \in 1..(Rows(X) + 1) |->
        IF k % 2 = 1 THEN PrincipalMinors(X, k - 1) ELSE Neg(PrincipalMinors(X, k - 1))]

\* the eigenvectors of X, unit columns: of a 1 x 1 matrix, [[1.]]; of a larger
\* one they are not numbers of the field: <<>>.
eig_vectors(X) == IF Rows(X) = 1 THEN <<<<One>>>> ELSE <<>>

RECURSIVE Binomial(_, _)
Binomial(n, k) ==
    IF k = 0 \/ k = n THEN 1 ELSE Binomial(n - 1, k - 1) + Binomial(n - 1, k)

\* An eigenvalue array with every entry left as it is.
diag_Unshifted(c, h) == c

\* line 537: diag = diag - 0.5, in general diag - h: the roots of c, each less
\* h, are the roots of c(x + h), whose coefficient of x^(N-j) is
\* sum_{k <= j} c_k * Binomial(N-k, j-k) * h^(j-k).
diag_minus(c, h) ==
    LET N == Len(c) - 1
    IN  [j1 \in 1..(N + 1) |->
            Sum([k1 \in 1..j1 |->
                    Mul(c[k1], Mul(Z(Binomial(N - (k1 - 1), j1 - k1)), Pow(h, j1 - k1)))],
                1, j1)]

\* The Hurwitz matrix of the polynomial c: H[i][j] = c_(2j-i), 0 outside 0..N.
Hurwitz(c) ==
    LET N == Len(c) - 1
    IN  [i \in 1..N |-> [j \in 1..N |->
            IF 2 * j - i >= 0 /\ 2 * j - i <= N THEN c[2 * j - i + 1] ELSE Zero]]

\* Every entry of the eigenvalue array c has real part < 0 (Routh-Hurwitz:
\* every leading principal minor of the Hurwitz matrix of c is > 0).
NegativeRealParts(c) ==
    \A k \in 1..(Len(c) - 1) :
        Sign(Det([i \in 1..k |-> [j \in 1..k |-> Hurwitz(c)[i][j]]])) > 0

\* The entries of an eigenvalue array of length 1.
Entries(c) == IF Len(c) = 2 THEN <<Neg(c[2])>> ELSE <<>>

\* A surd of p or q as a number of the field, where it is one.
Field(x) ==
    IF x[2] = 0 THEN Unrepresentable
    ELSE IF x[3] = 1 THEN Q(x[1], x[2])
    ELSE IF x[3] = 3 THEN Num(0, x[1], 0, 0, x[2])
    ELSE Unrepresentable

(***************************************************************************)
(* Part 3: one S4 layer from S4LayerInit(N) on.  make_DPLR_HiPPO runs line *)
(* by line; the layer it yields is then initialised, its parameters are    *)
(* updated from outside and it is applied: flax runs setup on the          *)
(* parameters handed to each application, then __call__.                   *)
(***************************************************************************)
MaxN == 4

MaxPasses == 2

\* B (N, 1) and C (1, N) as the parameter store holds them, and D (1,).
StoredValues == {Z(1), Z(2)}

StoredD == {One, Q(1, 2)}

\* The inputs u of length l_max applied: an impulse and a mixed sequence.
LayerInputs(L) ==
    { [l \in 1..L |-> IF l = 1 THEN One ELSE Zero],
      [l \in 1..L |-> IF l % 2 = 1 THEN Z(-1) ELSE Z(2)] }

NoLayerLocals ==
    [p |-> <<>>, q |-> <<>>, pq |-> <<>>, hippo |-> <<>>, S |-> <<>>, diag |-> <<>>,
     v |-> <<>>, layer |-> "none", params |-> "none", self |-> "none", prev |-> "none",
     calls |-> 0, passes |-> 0]

InitLayer ==
    /\ pc = "S4LayerInit"
    /\ \E N \in 1..MaxN : \E L \in LengthsOf(N) : arg = [N |-> N, l_max |-> L, u |-> <<>>]
    /\ loc = NoLayerLocals
    /\ ret = "none"

\* line 593 calls make_DPLR_HiPPO(N); lines 529-530
HiPPO_p ==
    /\ pc = "S4LayerInit"
    /\ loc' = [loc EXCEPT !.calls = @ + 1, !.p = hippo_p(arg.N), !.q = hippo_p(arg.N)]
    /\ pc' = "make_DPLR_HiPPO_531"
    /\ UNCHANGED <<arg, ret>>

\* line 531
HiPPO_pq ==
    /\ pc = "make_DPLR_HiPPO_531"
    /\ loc' = [loc EXCEPT !.pq = hippo_pq(loc.p, loc.q)]
    /\ pc' = "make_DPLR_HiPPO_532"
    /\ UNCHANGED <<arg, ret>>

\* line 532
HiPPO_hippo ==
    /\ pc = "make_DPLR_HiPPO_532"
    /\ loc' = [loc EXCEPT !.hippo = hippo_matrix(loc.pq)]
    /\ pc' = "make_DPLR_HiPPO_534"
    /\ UNCHANGED <<arg, ret>>

\* line 534
HiPPO_S ==
    /\ pc = "make_DPLR_HiPPO_534"
    /\ loc' = [loc EXCEPT !.S = hippo_S(loc.hippo, loc.pq)]
    /\ pc' = "make_DPLR_HiPPO_536"
    /\ UNCHANGED <<arg, ret>>

\* line 536
HiPPO_eig ==
    /\ pc = "make_DPLR_HiPPO_536"
    /\ loc' = [loc EXCEPT !.diag = eig_values(loc.S), !.v = eig_vectors(loc.S)]
    /\ pc' = "make_DPLR_HiPPO_537"
    /\ UNCHANGED <<arg, ret>>

\* line 537
HiPPO_shift ==
    /\ pc = "make_DPLR_HiPPO_537"
    /\ loc' = [loc EXCEPT !.diag = diag_minus(loc.diag, Q(1, 2))]
    /\ pc' = "make_DPLR_HiPPO_538"
    /\ UNCHANGED <<arg, ret>>

\* line 538: return hippo, diag, 0.5 * p, q, v
HiPPO_return ==
    /\ pc = "make_DPLR_HiPPO_538"
    /\ ret' = <<loc.hippo, loc.diag,
                [n \in 1..arg.N |-> SurdMul(Surd(1, 2, 1), loc.p[n])], loc.q, loc.v>>
    /\ pc' = "S4LayerInit_594"
    /\ UNCHANGED <<arg, loc>>

\* lines 593-598, for the V, Lambda, p and q that are numbers of the field
LayerInit ==
    /\ pc = "S4LayerInit_594"
    /\ ret[5] # <<>>
    /\ LET Lambda == Entries(ret[2])
           Vc == ConjT(ret[5])
           p == MatVec(Vc, [n \in 1..arg.N |-> Field(ret[3][n])])
           q == MatVec(Vc, [n \in 1..arg.N |-> Conj(Field(ret[4][n]))])
       IN  loc' = [loc EXCEPT !.layer = [N |-> arg.N, A |-> DPLR(Lambda, p, q), p |-> p,
                                         q |-> q, Lambda |-> Lambda, l_max |-> arg.l_max]]
    /\ pc' = "constructed"
    /\ ret' = "none"
    /\ UNCHANGED arg

\* lines 562-564 at the layer's initialisation: B and C as lecun_normal draws
\* them, D ones.
ParamInit ==
    /\ pc = "constructed"
    /\ \E B \in Seqs(Seqs(StoredValues, 1), arg.N), C \in Seqs(Seqs(StoredValues, arg.N), 1) :
          loc' = [loc EXCEPT !.params = [B |-> B, C |-> C, D |-> One]]
    /\ pc' = "idle"
    /\ UNCHANGED <<arg, ret>>

\* The optimizer, between two applications: new values of B, C and D.
ParamUpdate ==
    /\ pc = "idle"
    /\ \E B \in Seqs(Seqs(StoredValues, 1), arg.N), C \in Seqs(Seqs(StoredValues, arg.N), 1),
          D \in StoredD :
          /\ [B |-> B, C |-> C, D |-> D] # loc.params
          /\ loc' = [loc EXCEPT !.params = [B |-> B, C |-> C, D |-> D]]
    /\ UNCHANGED <<pc, arg, ret>>

\* setup that computes the structural values again.
Setup_Refactorizes ==
    /\ pc = "idle"
    /\ loc.passes < MaxPasses
    /\ loc' = [loc EXCEPT
                 !.calls = @ + 1,
                 !.prev = loc.self,
                 !.self = [step |-> Q(1, loc.layer.l_max), B |-> loc.params.B,
                           C |-> loc.params.C, D |-> loc.params.D,
                           K |-> setup_K(loc.layer.A, loc.layer.Lambda, loc.layer.p,
                                         loc.layer.q, loc.params.B, loc.params.C,
                                         loc.layer.l_max)]]
    /\ pc' = "forward"
    /\ UNCHANGED <<arg, ret>>

\* setup that computes K on the first application only.
Setup_KeepsKernel ==
    /\ pc = "idle"
    /\ loc.passes < MaxPasses
    /\ loc' = [loc EXCEPT
                 !.prev = loc.self,
                 !.self = [step |-> Q(1, loc.layer.l_max), B |-> loc.params.B,
                           C |-> loc.params.C, D |-> loc.params.D,
                           K |-> IF loc.passes > 0 THEN loc.self.K
                                 ELSE setup_K(loc.layer.A, loc.layer.Lambda, loc.layer.p,
                                              loc.layer.q, loc.params.B, loc.params.C,
                                              loc.layer.l_max)]]
    /\ pc' = "forward"
    /\ UNCHANGED <<arg, ret>>

\* lines 560-571, run on the parameters of this application ("Recomputed each
\* time"); prev keeps the attributes of the application before.
Setup ==
    /\ pc = "idle"
    /\ loc.passes < MaxPasses
    /\ loc' = [loc EXCEPT
                 !.prev = loc.self,
                 !.self = [step |-> Q(1, loc.layer.l_max), B |-> loc.params.B,
                           C |-> loc.params.C, D |-> loc.params.D,
                           K |-> setup_K(loc.layer.A, loc.layer.Lambda, loc.layer.p,
                                         loc.layer.q, loc.params.B, loc.params.C,
                                         loc.layer.l_max)]]
    /\ pc' = "forward"
    /\ UNCHANGED <<arg, ret>>

\* lines 573-574
Forward ==
    /\ pc = "forward"
    /\ \E u \in LayerInputs(arg.l_max) :
          /\ arg' = [arg EXCEPT !.u = u]
          /\ ret' = Layer_call(u, loc.self.K, loc.self.D)
    /\ loc' = [loc EXCEPT !.passes = @ + 1]
    /\ pc' = "idle"

NextLayer ==
    \/ HiPPO_p
    \/ HiPPO_pq
    \/ HiPPO_hippo
    \/ HiPPO_S
    \/ HiPPO_eig
    \/ HiPPO_shift
    \/ HiPPO_return
    \/ LayerInit
    \/ ParamInit
    \/ ParamUpdate
    \/ Setup
    \/ Forward

SpecLayer == InitLayer /\ [][NextLayer]_vars

\* C5: every entry of the eigenvalue array diag that make_DPLR_HiPPO(N) returns
\* has a strictly negative real part, and so has every entry of the Lambda of
\* the layer built from it.
C5_LambdaNegativeRealPart ==
    /\ pc = "S4LayerInit_594" => NegativeRealParts(ret[2])
    /\ pc \in {"constructed", "idle", "forward"} =>
          \A n \in 1..arg.N : Sign(RealPart(loc.layer.Lambda[n])) < 0

\* C5 witness: make_DPLR_HiPPO(4) has returned, its diag the roots of
\* x^4 + 2 x^3 + 53 x^2 + 52 x + 72.
C5_Witness ==
    /\ pc = "S4LayerInit_594"
    /\ arg.N = 4
    /\ ret[2] = <<Z(1), Z(2), Z(53), Z(52), Z(72)>>

\* C9: from the construction of the layer on, through parameter updates, setup
\* and forward passes, make_DPLR_HiPPO has been executed exactly once and no
\* step executes it again or changes Lambda, p, q or A.
C9_FactorizedOnceAtConstruction ==
    [][(pc \in {"constructed", "idle", "forward"}) =>
          (loc.calls = 1 /\ loc'.calls = 1 /\ loc'.layer = loc.layer)]_vars

\* C9 witness: two forward passes are done, the second on other parameters
\* than the first, and the parameters have been updated once more since.
C9_Witness ==
    /\ pc = "idle"
    /\ loc.passes = 2
    /\ loc.calls = 1
    /\ loc.prev.B # loc.self.B
    /\ loc.params.C # loc.self.C

\* C10: the output of every forward pass is the convolution of u with the
\* kernel derived from the B and C of the parameter store as it is at that
\* pass (and step = 1 / l_max), plus that store's D times u.
C10_KernelFromCurrentSnapshot ==
    [][pc = "forward" =>
          ret' = Layer_call(arg'.u,
                            setup_K(loc.layer.A, loc.layer.Lambda, loc.layer.p, loc.layer.q,
                                    loc.params.B, loc.params.C, loc.layer.l_max),
                            loc.params.D)]_vars

\* C10 witness: a second forward pass of a layer of length 3 has returned, run
\* on updated parameters with a kernel other than the first pass's.
C10_Witness ==
    /\ pc = "idle"
    /\ loc.passes = 2
    /\ arg.l_max = 3
    /\ loc.prev.K # loc.self.K
    /\ loc.self.B = loc.params.B
    /\ loc.self.C = loc.params.C
    /\ ret = Layer_call(arg.u, loc.self.K, loc.self.D)

\* C11: in make_DPLR_HiPPO(N), hippo has -sqrt(2i+1) * sqrt(2j+1) below the
\* diagonal, -(i+1) on it and 0 above it, and S = hippo + 0.5 * pq + 0.5 * I
\* is skew-symmetric up to a diagonal shift: S[i][j] = -S[j][i] for i # j,
\* and the diagonal entries of S are all equal.
C11_SkewSymmetricUpToShift ==
    (pc \in {"make_DPLR_HiPPO_536", "make_DPLR_HiPPO_537", "make_DPLR_HiPPO_538"}) =>
        /\ \A i, j \in 1..arg.N :
              loc.hippo[i][j] =
                  IF i > j THEN SurdNeg(SurdMul(SurdSqrt(2 * i + 1), SurdSqrt(2 * j + 1)))
                  ELSE IF i = j THEN Surd(-(i + 1), 1, 1)
                  ELSE Surd(0, 1, 1)
        /\ \A i, j \in 1..arg.N : i # j => loc.S[i][j] = SurdNeg(loc.S[j][i])
        /\ \A i, j \in 1..arg.N : loc.S[i][i] = loc.S[j][j]

\* C11 witness: S of make_DPLR_HiPPO(4) is computed, with S[1][2] =
\* sqrt(15)/2 and S[4][1] = -3*sqrt(3)/2.
C11_Witness ==
    /\ pc = "make_DPLR_HiPPO_536"
    /\ arg.N = 4
    /\ loc.S[1][2] = Surd(1, 2, 15)
    /\ loc.S[4][1] = Surd(-3, 2, 3)

====
